---------------------------- MODULE Spec2Model ----------------------------
(***************************************************************************)
(* A model of conpot/core/file_io.py: the per-protocol virtual filesystem  *)
(* (AbstractFS), its directory-listing formatter, and the upload capture   *)
(* writer (FileWriter).                                                    *)
(*                                                                         *)
(* A Python string is a sequence of one-character strings (Chars("/f") is  *)
(* <<"/", "f">>), so that "/f" + "/.." is the five-character path it is in *)
(* the code and can be split on "/" again.  None is PyNone.                *)
(***************************************************************************)
EXTENDS Integers, Sequences, FiniteSets, TLC

VARIABLES
    rootfs,   \* the shared TempFS: protocol name -> the subtree created for it
    sess,     \* the AbstractFS object of each session, and where its __init__ is
    last,     \* the most recent call on an AbstractFS object and what it gave
    store,    \* the directory uploads are written to: file name -> file
    writers   \* the FileWriter object of each upload

jailvars == <<rootfs, sess, last>>
upvars == <<store, writers>>
vars == <<rootfs, sess, last, store, writers>>

----------------------------------------------------------------------------
(* Bounds of the model. *)

NSess == 2          \* sessions constructing their AbstractFS concurrently
NJail == 1          \* sessions whose jail the protocol adapter then drives
MaxCwdLen == 7      \* chdir is not called once _cwd would grow past this
NWriters == 2       \* concurrent uploads
MaxBytes == 3       \* bytes one upload is handed
BufCap == 1         \* bytes the file object buffers before it writes through
MaxFile == 3        \* bytes a file of the jail grows to by appending

----------------------------------------------------------------------------
(* Strings. *)

Chars(s) == [i \in 1..Len(s) |-> SubSeq(s, i, i)]

Slash == "/"
Dot == "."

PyNone == [none |-> TRUE, str |-> <<>>]
PyStr(s) == [none |-> FALSE, str |-> s]

ProtoNames == { Chars("f"), Chars("g") }

\* The path arguments the protocol adapter hands to chdir.
PathArgs ==
    { Chars(""), Chars("/a"), Chars("/.."), Chars("/."), Chars("/x"), Chars("a") }

\* The values assigned to the root property.
RootArgs == { Chars("/"), Chars("/r") }

----------------------------------------------------------------------------
(* The source tree that _add_protocol mirrors into the jail, as the        *)
(* backing store describes it: path (a sequence of names) -> entry, with   *)
(* the fields getinfo gives in the stat and link namespaces.               *)

\* drwxr-xr-x, 2 Sep 2022 00:00:00 UTC
DirEntry == [kind |-> "dir", st_mode |-> 16877, st_nlink |-> 2, st_size |-> 0,
             st_mtime |-> 1662076800, st_uid |-> 1000, st_gid |-> 1000,
             target |-> PyNone, content |-> <<>>]

\* mode 0644 regular file, 1 link, 7045120 bytes, 2 Sep 2022 00:00:00 UTC
MusicEntry == [kind |-> "file", st_mode |-> 33188, st_nlink |-> 1,
               st_size |-> 7045120, st_mtime |-> 1662076800,
               st_uid |-> 1000, st_gid |-> 1000,
               target |-> PyNone, content |-> <<7, 4>>]

\* lrwxrwxrwx, 1 Sep 2022 02:40:00 UTC, pointing at music.mp3
LinkEntry == [kind |-> "link", st_mode |-> 41471, st_nlink |-> 1, st_size |-> 9,
              st_mtime |-> 1662000000, st_uid |-> 1001, st_gid |-> 1001,
              target |-> PyStr(Chars("music.mp3")), content |-> <<>>]

P_f == << Chars("f") >>
P_fa == << Chars("f"), Chars("a") >>
P_g == << Chars("g") >>
P_ga == << Chars("g"), Chars("a") >>
P_music == << Chars("music.mp3") >>
P_link == << Chars("l") >>

\* The order in which mirror.mirror walks the source: parents first.
SrcOrder == << P_f, P_fa, P_g, P_ga, P_music, P_link >>

SrcEntry(p) ==
    IF p = P_music THEN MusicEntry
    ELSE IF p = P_link THEN LinkEntry
    ELSE DirEntry

\* A directory made, and a file written, at time now by the process that
\* owns the jail.
NewDir(now) == [DirEntry EXCEPT !.st_mtime = now]
NewFile(contents, now) ==
    [kind |-> "file", st_mode |-> 33188, st_nlink |-> 1,
     st_size |-> Len(contents), st_mtime |-> now,
     st_uid |-> 1000, st_gid |-> 1000,
     target |-> PyNone, content |-> contents]

\* The copy of a file made at time now: the bytes of the original in a file
\* of the copier's own making.
CopyOf(entry, now) ==
    [NewFile(entry.content, now) EXCEPT !.st_size = entry.st_size]

\* What mirror.mirror writes at p, at time now.  Its walk sorts a name under
\* files or directories by is_dir, which looks through a symbolic link, and
\* copies a file by reading it, which does too: a link to a file arrives as
\* a regular file holding what the link points at, and no link is ever
\* created.  Directories are made and files written anew: what arrives is
\* the content, under the mode, owner and times of a new entry.
MirrorEntry(p, now) ==
    LET src == IF SrcEntry(p).kind = "link"
               THEN SrcEntry(SubSeq(p, 1, Len(p) - 1)
                                 \o << SrcEntry(p).target.str >>)
               ELSE SrcEntry(p)
    IN IF src.kind = "dir" THEN NewDir(now) ELSE CopyOf(src, now)

\* The time at which the jail is filled: 2 Sep 2022 00:00:00 UTC, right
\* after the source was last written.
MirrorClock == { 1662076800 }

EmptyTree == [p \in {} |-> DirEntry]

NoSubtree == [exists |-> FALSE, tree |-> EmptyTree, by |-> 0]

----------------------------------------------------------------------------
(* fs.path: splitting and normalising a path, as home_fs does with every   *)
(* path it is given (SubFS.delegate_path -> normpath -> relpath).          *)

RECURSIVE SplitAt(_, _, _)
SplitAt(s, i, cur) ==
    IF i > Len(s) THEN << cur >>
    ELSE IF s[i] = Slash THEN << cur >> \o SplitAt(s, i + 1, <<>>)
    ELSE SplitAt(s, i + 1, Append(cur, s[i]))

\* str.split("/")
Split(s) == SplitAt(s, 1, <<>>)

RECURSIVE NormFrom(_, _, _)
NormFrom(comps, i, acc) ==
    IF i > Len(comps) THEN [ok |-> TRUE, comps |-> acc]
    ELSE IF comps[i] = << Dot, Dot >>
         THEN IF acc = <<>>
              THEN [ok |-> FALSE, comps |-> <<>>]    \* IllegalBackReference
              ELSE NormFrom(comps, i + 1, SubSeq(acc, 1, Len(acc) - 1))
    ELSE IF comps[i] = <<>> \/ comps[i] = << Dot >>
         THEN NormFrom(comps, i + 1, acc)
    ELSE NormFrom(comps, i + 1, Append(acc, comps[i]))

\* normpath, then relpath: the names from the filesystem's root down, or
\* ok = FALSE where a ".." steps above that root.
NormPath(s) == NormFrom(Split(s), 1, <<>>)

\* home_fs.isdir(path): "raise" where normpath raises, else whether the
\* subtree holds a directory there (its own root is one).
IsDir(tree, path) ==
    LET n == NormPath(path) IN
    IF ~n.ok THEN "IllegalBackReference"
    ELSE IF n.comps = <<>> THEN "yes"
    ELSE IF n.comps \in DOMAIN tree /\ tree[n.comps].kind = "dir" THEN "yes"
    ELSE "no"

----------------------------------------------------------------------------
(* AbstractFS *)

\* closed is home_fs's own flag: set by its close, read by the check that
\* opens each of its methods.
\* appended is history, not a field of the class: the path arguments of the
\* chdir calls that found a directory, joined in the order of the calls.
NoSession == [pc |-> "new", name |-> <<>>, root |-> <<>>, home |-> <<>>,
              cwd |-> <<>>, mi |-> 0, err |-> "none", closed |-> FALSE,
              appended |-> <<>>]

\* pre is what the caller could see before the call: the session's cwd.
NoCall == [op |-> "none", s |-> 0, arg |-> <<>>, pre |-> <<>>,
           out |-> <<>>, err |-> "none"]

\* The subtree home_fs is bound to: the one root_fs.makedir(self._cwd) opened.
HomeTree(s) == rootfs[sess[s].name].tree

JailInit(n) ==
    /\ rootfs = [p \in ProtoNames |-> NoSubtree]
    /\ sess = [s \in 1..n |-> NoSession]
    /\ last = NoCall

\* __init__, lines 80-86: the fields, before _add_protocol is called.
Construct(s, protocol_name) ==
    /\ sess[s].pc = "new"
    /\ sess' = [sess EXCEPT ![s] =
                   [pc |-> "makedir", name |-> protocol_name,
                    root |-> << Slash >>,
                    home |-> << Slash >> \o protocol_name,
                    cwd |-> << Slash >> \o protocol_name,
                    mi |-> 0, err |-> "none", closed |-> FALSE,
                    appended |-> <<>>]]
    /\ UNCHANGED <<rootfs, last, store, writers>>

\* root_fs.makedir(path) with recreate left False: an exclusive create.
MakeDirRecreate(exists) == FALSE
MakeDirFails(exists) == exists

\* _add_protocol, line 94: self.home_fs = self.root_fs.makedir(self._cwd).
\* DirectoryExists leaves __init__, and the object is never built.
MakeDir(s) ==
    /\ sess[s].pc = "makedir"
    /\ LET n == sess[s].name IN
       IF MakeDirFails(rootfs[n].exists)
       THEN /\ sess' = [sess EXCEPT ![s].pc = "failed",
                                    ![s].err = "DirectoryExists"]
            /\ UNCHANGED <<rootfs, store, writers>>
       ELSE /\ rootfs' = [rootfs EXCEPT ![n] =
                             [exists |-> TRUE, tree |-> EmptyTree, by |-> s]]
            /\ sess' = [sess EXCEPT ![s].pc = "mirror", ![s].mi = 1]
    /\ UNCHANGED <<last, store, writers>>

\* _add_protocol, line 96: mirror.mirror copies the source's entries into
\* home_fs one at a time; __init__ returns after the last.
MirrorStep(s, now) ==
    /\ sess[s].pc = "mirror"
    /\ LET n == sess[s].name
           p == SrcOrder[sess[s].mi]
       IN rootfs' = [rootfs EXCEPT ![n].tree =
                        [q \in DOMAIN @ \cup {p} |->
                            IF q = p THEN MirrorEntry(p, now) ELSE @[q]]]
    /\ sess' = [sess EXCEPT
                   ![s].mi = @ + 1,
                   ![s].pc = IF sess[s].mi = Len(SrcOrder) THEN "ready" ELSE "mirror"]
    /\ UNCHANGED <<last, store, writers>>

\* the root setter, lines 123-126
SetRoot(s, path) ==
    /\ sess[s].pc = "ready"
    /\ sess' = [sess EXCEPT ![s].root = path]
    /\ last' = [NoCall EXCEPT !.op = "set_root", !.s = s, !.arg = path,
                              !.pre = sess[s].cwd]
    /\ UNCHANGED <<rootfs, store, writers>>

\* A chdir that assigns the path it was given instead of appending it.
ChdirResultAssign(cwd, tree, path) ==
    IF path = <<>> THEN [cwd |-> cwd, err |-> "AssertionError"]
    ELSE LET d == IsDir(tree, cwd \o path) IN
         IF d = "IllegalBackReference" THEN [cwd |-> cwd, err |-> d]
         ELSE IF d = "yes" THEN [cwd |-> path, err |-> "none"]
         ELSE [cwd |-> cwd, err |-> "none"]

\* chdir, lines 128-138: what the call does to _cwd and what reaches the caller.
ChdirResult(cwd, tree, path) ==
    IF path = <<>> THEN [cwd |-> cwd, err |-> "AssertionError"]
    ELSE LET d == IsDir(tree, cwd \o path) IN
         IF d = "IllegalBackReference" THEN [cwd |-> cwd, err |-> d]
         ELSE IF d = "yes" THEN [cwd |-> cwd \o path, err |-> "none"]
         ELSE [cwd |-> cwd, err |-> "none"]   \* the FSError is built, not raised

Chdir(s, path) ==
    /\ sess[s].pc = "ready"
    /\ Len(sess[s].cwd) + Len(path) <= MaxCwdLen
    /\ LET r == IF sess[s].closed /\ path # <<>>
                THEN [cwd |-> sess[s].cwd, err |-> "FilesystemClosed"]
                ELSE ChdirResult(sess[s].cwd, HomeTree(s), path)
       IN
       /\ sess' = [sess EXCEPT
                      ![s].cwd = r.cwd,
                      ![s].appended =
                          IF /\ path # <<>>
                             /\ ~sess[s].closed
                             /\ IsDir(HomeTree(s), sess[s].cwd \o path) = "yes"
                          THEN @ \o path ELSE @]
       /\ last' = [NoCall EXCEPT !.op = "chdir", !.s = s, !.arg = path,
                                 !.pre = sess[s].cwd, !.out = r.cwd,
                                 !.err = r.err]
    /\ UNCHANGED <<rootfs, store, writers>>

\* getcwd, lines 140-142 (the cwd property, lines 118-121)
GetcwdResult(s) == sess[s].cwd

Getcwd(s) ==
    /\ sess[s].pc = "ready"
    /\ last' = [NoCall EXCEPT !.op = "getcwd", !.s = s, !.pre = sess[s].cwd,
                              !.out = GetcwdResult(s)]
    /\ UNCHANGED <<rootfs, sess, store, writers>>

----------------------------------------------------------------------------
(* stat and readlink *)

\* home_fs.getinfo(path, ...): the entry at path, the subtree's root included.
GetInfo(tree, path) ==
    LET n == NormPath(path) IN
    IF ~n.ok THEN [err |-> "IllegalBackReference", info |-> DirEntry]
    ELSE IF n.comps = <<>> THEN [err |-> "none", info |-> DirEntry]
    ELSE IF n.comps \in DOMAIN tree THEN [err |-> "none", info |-> tree[n.comps]]
    ELSE [err |-> "ResourceNotFound", info |-> DirEntry]

\* stat, lines 152-157: the raw stat namespace of the entry at path.
StatResult(tree, path) ==
    IF path = <<>> THEN [err |-> "AssertionError", st |-> DirEntry]
    ELSE LET g == GetInfo(tree, path) IN [err |-> g.err, st |-> g.info]

\* The path readlink hands to getinfo, line 164.
ReadlinkQuery(path) == Chars(".")

\* readlink, lines 159-164: the link target getinfo reports, None included.
ReadlinkResult(tree, path) ==
    IF path = <<>> THEN [err |-> "AssertionError", target |-> PyNone]
    ELSE LET g == GetInfo(tree, ReadlinkQuery(path)) IN
         [err |-> g.err, target |-> g.info.target]

Stat(s, path) ==
    /\ sess[s].pc = "ready"
    /\ LET r == IF sess[s].closed /\ path # <<>>
                THEN [err |-> "FilesystemClosed", st |-> DirEntry]
                ELSE StatResult(HomeTree(s), path)
       IN
       last' = [NoCall EXCEPT !.op = "stat", !.s = s, !.arg = path,
                              !.pre = sess[s].cwd,
                              !.out = r.st, !.err = r.err]
    /\ UNCHANGED <<rootfs, sess, store, writers>>

Readlink(s, path) ==
    /\ sess[s].pc = "ready"
    /\ LET r == IF sess[s].closed /\ path # <<>>
                THEN [err |-> "FilesystemClosed", target |-> PyNone]
                ELSE ReadlinkResult(HomeTree(s), path)
       IN
       last' = [NoCall EXCEPT !.op = "readlink", !.s = s, !.arg = path,
                              !.pre = sess[s].cwd, !.out = r.target,
                              !.err = r.err]
    /\ UNCHANGED <<rootfs, sess, store, writers>>

\* The paths the protocol adapter hands to stat and readlink.
QueryArgs == { Chars(""), Chars("/music.mp3"), Chars("/l"), Chars("/f"),
               Chars("/nope"), Chars("/..") }

----------------------------------------------------------------------------
(* The operations left unimplemented *)

\* What a method whose body is "raise NotImplementedError" gives its caller,
\* and what one whose body is "pass" gives: None, returned normally.
Raises == [err |-> "NotImplementedError", out |-> PyNone]
Passes == [err |-> "none", out |-> PyNone]

\* utime, lines 166-168
UtimeResult == Raises
\* getmtime, lines 170-172
GetmtimeResult == Raises
\* get_permissions, lines 182-184
GetPermissionsResult == Passes
\* set_permissions, lines 186-188
SetPermissionsResult == Passes

Utime(s) ==
    /\ sess[s].pc = "ready"
    /\ last' = [NoCall EXCEPT !.op = "utime", !.s = s, !.pre = sess[s].cwd,
                              !.out = UtimeResult.out, !.err = UtimeResult.err]
    /\ UNCHANGED <<rootfs, sess, store, writers>>

Getmtime(s) ==
    /\ sess[s].pc = "ready"
    /\ last' = [NoCall EXCEPT !.op = "getmtime", !.s = s, !.pre = sess[s].cwd,
                              !.out = GetmtimeResult.out, !.err = GetmtimeResult.err]
    /\ UNCHANGED <<rootfs, sess, store, writers>>

GetPermissions(s) ==
    /\ sess[s].pc = "ready"
    /\ last' = [NoCall EXCEPT !.op = "get_permissions", !.s = s, !.pre = sess[s].cwd,
                              !.out = GetPermissionsResult.out, !.err = GetPermissionsResult.err]
    /\ UNCHANGED <<rootfs, sess, store, writers>>

SetPermissions(s) ==
    /\ sess[s].pc = "ready"
    /\ last' = [NoCall EXCEPT !.op = "set_permissions", !.s = s, !.pre = sess[s].cwd,
                              !.out = SetPermissionsResult.out, !.err = SetPermissionsResult.err]
    /\ UNCHANGED <<rootfs, sess, store, writers>>

----------------------------------------------------------------------------
(* __getattr__: the attributes of home_fs the class hands to its callers *)

\* The alias table of conpot.protocols.ftp.ftp_utils: protocol command names
\* and the filesystem operation each stands for.
command_alias == [mkd |-> "makedir", rmd |-> "removedir", dele |-> "remove"]

\* The public names of home_fs, a PyFilesystem FS object: what
\* hasattr(self.home_fs, item) of line 103 is true for.
HomeFsAttrs ==
    { "appendbytes", "appendtext", "check", "close", "copy", "copydir",
      "create", "desc", "download", "exists", "filterdir", "getbasic",
      "getdetails", "getinfo", "getmeta", "getsize", "getsyspath", "gettype",
      "geturl", "glob", "hassyspath", "hasurl", "isclosed", "isdir",
      "isempty", "isfile", "islink", "listdir", "lock", "makedir", "makedirs",
      "match", "move", "movedir", "open", "openbin", "opendir", "readbytes",
      "readtext", "remove", "removedir", "removetree", "scandir", "setinfo",
      "settimes", "touch", "tree", "upload", "validatepath", "walk",
      "writebytes", "writefile", "writetext" }

\* __getattr__, lines 100-106: item goes through command_alias, and the
\* attribute of home_fs of that name is returned; FilesystemError where
\* home_fs has none.
GetAttr(item) ==
    LET name == IF item \in DOMAIN command_alias THEN command_alias[item] ELSE item
    IN IF name \in HomeFsAttrs THEN [err |-> "none", attr |-> name]
       ELSE [err |-> "FilesystemError", attr |-> ""]

\* The names under which a caller reaches the method of home_fs.
CallNames(method) ==
    { item \in {method} \cup DOMAIN command_alias :
          GetAttr(item) = [err |-> "none", attr |-> method] }

\* q is p or lies below it.
Under(p, q) == Len(p) <= Len(q) /\ SubSeq(q, 1, Len(p)) = p

IsDirAt(tree, comps) ==
    comps = <<>> \/ (comps \in DOMAIN tree /\ tree[comps].kind = "dir")

\* home_fs.makedir(path), recreate left False.
MakedirResult(tree, path, now) ==
    LET n == NormPath(path)
        parent == SubSeq(n.comps, 1, Len(n.comps) - 1)
    IN IF ~n.ok THEN [err |-> "IllegalBackReference", tree |-> tree]
       ELSE IF n.comps = <<>> \/ n.comps \in DOMAIN tree
       THEN [err |-> "DirectoryExists", tree |-> tree]
       ELSE IF parent \in DOMAIN tree /\ tree[parent].kind # "dir"
       THEN [err |-> "DirectoryExpected", tree |-> tree]
       ELSE IF ~IsDirAt(tree, parent)
       THEN [err |-> "ResourceNotFound", tree |-> tree]
       ELSE [err |-> "none",
             tree |-> [q \in DOMAIN tree \cup {n.comps} |->
                          IF q = n.comps THEN NewDir(now) ELSE tree[q]]]

\* home_fs.makedirs(path), recreate left False: the missing directories on
\* the way are made, then the last one.
MakedirsResult(tree, path, now) ==
    LET n == NormPath(path)
        way == { SubSeq(n.comps, 1, k) : k \in 1..Len(n.comps) }
        missing == way \ DOMAIN tree
    IN IF ~n.ok THEN [err |-> "IllegalBackReference", tree |-> tree]
       ELSE IF \E p \in (way \ {n.comps}) \cap DOMAIN tree : tree[p].kind # "dir"
       THEN [err |-> "DirectoryExpected", tree |-> tree]
       ELSE IF n.comps = <<>> \/ n.comps \in DOMAIN tree
       THEN [err |-> "DirectoryExists", tree |-> tree]
       ELSE [err |-> "none",
             tree |-> [q \in DOMAIN tree \cup missing |->
                          IF q \in missing THEN NewDir(now) ELSE tree[q]]]

\* home_fs.remove(path): removes a file, and only a file.
RemoveResult(tree, path) ==
    LET n == NormPath(path) IN
    IF ~n.ok THEN [err |-> "IllegalBackReference", tree |-> tree]
    ELSE IF n.comps = <<>> THEN [err |-> "FileExpected", tree |-> tree]
    ELSE IF n.comps \notin DOMAIN tree THEN [err |-> "ResourceNotFound", tree |-> tree]
    ELSE IF tree[n.comps].kind = "dir" THEN [err |-> "FileExpected", tree |-> tree]
    ELSE [err |-> "none", tree |-> [q \in DOMAIN tree \ {n.comps} |-> tree[q]]]

\* home_fs.removedir(path): removes an empty directory other than the root.
RemovedirResult(tree, path) ==
    LET n == NormPath(path) IN
    IF ~n.ok THEN [err |-> "IllegalBackReference", tree |-> tree]
    ELSE IF n.comps = <<>> THEN [err |-> "RemoveRootError", tree |-> tree]
    ELSE IF n.comps \notin DOMAIN tree THEN [err |-> "ResourceNotFound", tree |-> tree]
    ELSE IF tree[n.comps].kind # "dir" THEN [err |-> "DirectoryExpected", tree |-> tree]
    ELSE IF \E q \in DOMAIN tree : q # n.comps /\ Under(n.comps, q)
    THEN [err |-> "DirectoryNotEmpty", tree |-> tree]
    ELSE [err |-> "none", tree |-> [q \in DOMAIN tree \ {n.comps} |-> tree[q]]]

\* home_fs.removetree(path): removes a directory and all it holds; of the
\* root, all it holds.
RemovetreeResult(tree, path) ==
    LET n == NormPath(path) IN
    IF ~n.ok THEN [err |-> "IllegalBackReference", tree |-> tree]
    ELSE IF n.comps # <<>> /\ n.comps \notin DOMAIN tree
    THEN [err |-> "ResourceNotFound", tree |-> tree]
    ELSE IF ~IsDirAt(tree, n.comps) THEN [err |-> "DirectoryExpected", tree |-> tree]
    ELSE [err |-> "none",
          tree |-> [q \in { q \in DOMAIN tree : ~Under(n.comps, q) } |-> tree[q]]]

\* home_fs.writebytes(path, contents): the file is made or emptied, then
\* written; a file that was there keeps its mode, links and owner.
WritebytesResult(tree, path, contents, now) ==
    LET n == NormPath(path)
        parent == SubSeq(n.comps, 1, Len(n.comps) - 1)
    IN IF ~n.ok THEN [err |-> "IllegalBackReference", tree |-> tree]
       ELSE IF n.comps = <<>> THEN [err |-> "FileExpected", tree |-> tree]
       ELSE IF ~IsDirAt(tree, parent) THEN [err |-> "ResourceNotFound", tree |-> tree]
       ELSE IF n.comps \in DOMAIN tree /\ tree[n.comps].kind = "dir"
       THEN [err |-> "FileExpected", tree |-> tree]
       ELSE [err |-> "none",
             tree |-> [q \in DOMAIN tree \cup {n.comps} |->
                          IF q # n.comps THEN tree[q]
                          ELSE IF q \in DOMAIN tree
                          THEN [tree[q] EXCEPT !.st_size = Len(contents),
                                               !.st_mtime = now,
                                               !.content = contents]
                          ELSE NewFile(contents, now)]]

\* The characters of a text that encode to one byte each: those of the
\* bytes 32 to 95, and those of the bytes 97 to 126.
AsciiFrom32 ==
    Chars(" !\"#$%&'()*+,-./0123456789:;<=>?@ABCDEFGHIJKLMNOPQRSTUVWXYZ[\\]^_")
AsciiFrom97 == Chars("abcdefghijklmnopqrstuvwxyz{|}~")

\* ord(c) of such a character, and of the tab
Ord(c) ==
    IF c = "\t" THEN 9
    ELSE IF \E i \in 1..Len(AsciiFrom32) : AsciiFrom32[i] = c
    THEN 31 + (CHOOSE i \in 1..Len(AsciiFrom32) : AsciiFrom32[i] = c)
    ELSE 96 + (CHOOSE i \in 1..Len(AsciiFrom97) : AsciiFrom97[i] = c)

\* text.encode('utf-8')
Utf8(text) == [i \in 1..Len(text) |-> Ord(text[i])]

\* home_fs.writetext(path, contents): the text is encoded and written as
\* writebytes writes.
WritetextResult(tree, path, contents, now) ==
    WritebytesResult(tree, path, Utf8(contents), now)

\* home_fs.appendbytes(path, data): the file is made if it is not there,
\* and data is written behind what it holds.
AppendbytesResult(tree, path, data, now) ==
    LET n == NormPath(path)
        parent == SubSeq(n.comps, 1, Len(n.comps) - 1)
    IN IF ~n.ok THEN [err |-> "IllegalBackReference", tree |-> tree]
       ELSE IF n.comps = <<>> THEN [err |-> "FileExpected", tree |-> tree]
       ELSE IF ~IsDirAt(tree, parent) THEN [err |-> "ResourceNotFound", tree |-> tree]
       ELSE IF n.comps \in DOMAIN tree /\ tree[n.comps].kind = "dir"
       THEN [err |-> "FileExpected", tree |-> tree]
       ELSE [err |-> "none",
             tree |-> [q \in DOMAIN tree \cup {n.comps} |->
                          IF q # n.comps THEN tree[q]
                          ELSE IF q \in DOMAIN tree
                          THEN [tree[q] EXCEPT
                                   !.st_size = @ + Len(data),
                                   !.st_mtime = IF data = <<>> THEN @ ELSE now,
                                   !.content = @ \o data]
                          ELSE NewFile(data, now)]]

\* home_fs.appendtext(path, text)
AppendtextResult(tree, path, text, now) ==
    AppendbytesResult(tree, path, Utf8(text), now)

\* home_fs.create(path, wipe): an empty file is made where there is none,
\* or, with wipe, in place of the one there; made tells which.
CreateResult(tree, path, wipe, now) ==
    LET n == NormPath(path)
        w == WritebytesResult(tree, path, <<>>, now)
    IN IF ~n.ok THEN [err |-> "IllegalBackReference", tree |-> tree, made |-> FALSE]
       ELSE IF ~wipe /\ (n.comps = <<>> \/ n.comps \in DOMAIN tree)
       THEN [err |-> "none", tree |-> tree, made |-> FALSE]
       ELSE [err |-> w.err, tree |-> w.tree, made |-> w.err = "none"]

\* home_fs.setinfo(path, {'details': {'modified': modified}}), which
\* home_fs.settimes(path, modified=...) comes down to as well.  (The times of
\* the subtree's own root are not kept in tree.)
SetinfoResult(tree, path, modified) ==
    LET n == NormPath(path) IN
    IF ~n.ok THEN [err |-> "IllegalBackReference", tree |-> tree]
    ELSE IF n.comps = <<>> THEN [err |-> "none", tree |-> tree]
    ELSE IF n.comps \notin DOMAIN tree THEN [err |-> "ResourceNotFound", tree |-> tree]
    ELSE [err |-> "none", tree |-> [tree EXCEPT ![n.comps].st_mtime = modified]]

\* home_fs.touch(path): create(path), and where something was there already
\* its times are set to now.
TouchResult(tree, path, now) ==
    LET c == CreateResult(tree, path, FALSE, now) IN
    IF c.err # "none" \/ c.made THEN [err |-> c.err, tree |-> c.tree]
    ELSE SetinfoResult(tree, path, now)

\* home_fs.open(path, mode) and home_fs.openbin(path, mode), the file object
\* closed again with nothing written: "w" makes or empties the file, "r"
\* needs it to be there.
OpenResult(tree, path, mode, now) ==
    LET n == NormPath(path) IN
    IF mode = "w" THEN WritebytesResult(tree, path, <<>>, now)
    ELSE IF ~n.ok THEN [err |-> "IllegalBackReference", tree |-> tree]
    ELSE IF n.comps = <<>> THEN [err |-> "FileExpected", tree |-> tree]
    ELSE IF n.comps \notin DOMAIN tree THEN [err |-> "ResourceNotFound", tree |-> tree]
    ELSE IF tree[n.comps].kind = "dir" THEN [err |-> "FileExpected", tree |-> tree]
    ELSE [err |-> "none", tree |-> tree]

\* home_fs.copy(src_path, dst_path), overwrite left False.
CopyResult(tree, src_path, dst_path, now) ==
    LET s == NormPath(src_path)
        d == NormPath(dst_path)
        parent == SubSeq(d.comps, 1, Len(d.comps) - 1)
    IN IF ~s.ok \/ ~d.ok THEN [err |-> "IllegalBackReference", tree |-> tree]
       ELSE IF d.comps = <<>> \/ d.comps \in DOMAIN tree
       THEN [err |-> "DestinationExists", tree |-> tree]
       ELSE IF s.comps = <<>> THEN [err |-> "FileExpected", tree |-> tree]
       ELSE IF s.comps \notin DOMAIN tree THEN [err |-> "ResourceNotFound", tree |-> tree]
       ELSE IF tree[s.comps].kind = "dir" THEN [err |-> "FileExpected", tree |-> tree]
       ELSE IF parent # <<>> /\ parent \notin DOMAIN tree
       THEN [err |-> "ResourceNotFound", tree |-> tree]
       ELSE IF ~IsDirAt(tree, parent) THEN [err |-> "DirectoryExpected", tree |-> tree]
       ELSE [err |-> "none",
             tree |-> [q \in DOMAIN tree \cup {d.comps} |->
                          IF q = d.comps THEN CopyOf(tree[s.comps], now)
                          ELSE tree[q]]]

\* home_fs.move(src_path, dst_path), overwrite left False: the file is
\* renamed with os.rename, and is at dst_path what it was at src_path; the
\* OSError of a rename into no directory reaches the caller as it is.
MoveResult(tree, src_path, dst_path) ==
    LET s == NormPath(src_path)
        d == NormPath(dst_path)
        parent == SubSeq(d.comps, 1, Len(d.comps) - 1)
    IN IF ~s.ok \/ ~d.ok THEN [err |-> "IllegalBackReference", tree |-> tree]
       ELSE IF d.comps = <<>> \/ d.comps \in DOMAIN tree
       THEN [err |-> "DestinationExists", tree |-> tree]
       ELSE IF s.comps = <<>> THEN [err |-> "FileExpected", tree |-> tree]
       ELSE IF s.comps \notin DOMAIN tree THEN [err |-> "ResourceNotFound", tree |-> tree]
       ELSE IF tree[s.comps].kind = "dir" THEN [err |-> "FileExpected", tree |-> tree]
       ELSE IF parent # <<>> /\ parent \notin DOMAIN tree
       THEN [err |-> "FileNotFoundError", tree |-> tree]
       ELSE IF ~IsDirAt(tree, parent) THEN [err |-> "NotADirectoryError", tree |-> tree]
       ELSE [err |-> "none",
             tree |-> [q \in (DOMAIN tree \ {s.comps}) \cup {d.comps} |->
                          IF q = d.comps THEN tree[s.comps] ELSE tree[q]]]

\* Where the entry at q, below the directory at from, arrives below to.
Moved(q, from, to) == to \o SubSeq(q, Len(from) + 1, Len(q))

\* home_fs.copydir(src_path, dst_path), create left False: what the directory
\* at src_path holds is copied into the one at dst_path, directories made
\* where there are none and files written anew.
CopydirResult(tree, src_path, dst_path, now) ==
    LET s == NormPath(src_path)
        d == NormPath(dst_path)
        below == { q \in DOMAIN tree : q # s.comps /\ Under(s.comps, q) }
        arrive == { Moved(q, s.comps, d.comps) : q \in below }
        from(p) == CHOOSE q \in below : Moved(q, s.comps, d.comps) = p
    IN IF ~s.ok \/ ~d.ok THEN [err |-> "IllegalBackReference", tree |-> tree]
       ELSE IF d.comps # <<>> /\ d.comps \notin DOMAIN tree
       THEN [err |-> "ResourceNotFound", tree |-> tree]
       ELSE IF s.comps # <<>> /\ s.comps \notin DOMAIN tree
       THEN [err |-> "ResourceNotFound", tree |-> tree]
       ELSE IF ~IsDirAt(tree, s.comps) \/ ~IsDirAt(tree, d.comps)
       THEN [err |-> "DirectoryExpected", tree |-> tree]
       ELSE [err |-> "none",
             tree |-> [p \in DOMAIN tree \cup arrive |->
                          IF p \notin arrive THEN tree[p]
                          ELSE IF tree[from(p)].kind = "dir"
                          THEN IF p \in DOMAIN tree THEN tree[p] ELSE NewDir(now)
                          ELSE CopyOf(tree[from(p)], now)]]

\* home_fs.movedir(src_path, dst_path), create left False: copied as copydir
\* copies, then the directory at src_path is removed with all it holds.
MovedirResult(tree, src_path, dst_path, now) ==
    LET c == CopydirResult(tree, src_path, dst_path, now)
        r == RemovetreeResult(c.tree, src_path)
    IN IF c.err # "none" THEN c ELSE r

\* A method of home_fs begins with self.check(): on a closed filesystem it
\* raises FilesystemClosed and does nothing.  (copy, move, copydir and
\* movedir do not: they hand their paths to the filesystem home_fs wraps,
\* which close leaves open.)
WhenOpen(closed, tree, r) ==
    IF closed THEN [r EXCEPT !.err = "FilesystemClosed", !.tree = tree] ELSE r

\* The paths, contents and times of the calls made on home_fs.
MakedirArgs == { Chars("/new") }
MakedirsArgs == { Chars("/new/sub") }
RemoveArgs == { Chars("/music.mp3") }
RemovedirArgs == { Chars("/new") }
RemovetreeArgs == { Chars("/new") }
WriteArgs == { Chars("/new/m") }
WriteContents == { << 9 >> }
WriteTexts == { Chars("\t") }
OpenModes == { "r", "w" }
CopyArgs == { [src |-> Chars("/music.mp3"), dst |-> Chars("/new/m")] }
CopydirArgs == { [src |-> Chars("/g"), dst |-> Chars("/new")] }
MovedirArgs == { [src |-> Chars("/f"), dst |-> Chars("/new")] }
FsClock == { 1700000500 }
HomeQueryArgs == { Chars("/new"), Chars("/music.mp3") }
\* The paths stat is asked about, and the listings format_list is given,
\* while the subtree is being changed.
HomeStatArgs == HomeQueryArgs \cup WriteArgs
HomeListings == { << Chars("music.mp3"), Chars("new") >>, << Chars("new/m") >> }
\* The attribute names callers ask for.
AttrItems == { "isdir", "getinfo", "removedir", "writebytes", "move", "mkd",
               "no_such_method" }

\* fs.<item>: the attribute access alone
HomeGetAttr(s, item) ==
    /\ sess[s].pc = "ready"
    /\ last' = [NoCall EXCEPT !.op = "getattr", !.s = s, !.arg = Chars(item),
                              !.pre = sess[s].cwd,
                              !.out = Chars(GetAttr(item).attr),
                              !.err = GetAttr(item).err]
    /\ UNCHANGED <<rootfs, sess, store, writers>>

\* fs.close(), reaching home_fs.close: the subtree stays, home_fs is closed.
HomeClose(s) ==
    /\ sess[s].pc = "ready"
    /\ CallNames("close") # {}
    /\ sess' = [sess EXCEPT ![s].closed = TRUE]
    /\ last' = [NoCall EXCEPT !.op = "close", !.s = s, !.pre = sess[s].cwd]
    /\ UNCHANGED <<rootfs, store, writers>>

\* fs.isdir(path), reaching home_fs.isdir through __getattr__
HomeIsdir(s, path) ==
    /\ sess[s].pc = "ready"
    /\ CallNames("isdir") # {}
    /\ LET d == IF sess[s].closed THEN "FilesystemClosed"
                ELSE IsDir(HomeTree(s), path)
       IN
       last' = [NoCall EXCEPT !.op = "isdir", !.s = s, !.arg = path,
                              !.pre = sess[s].cwd,
                              !.out = IF d = "yes" THEN Chars("True")
                                      ELSE IF d = "no" THEN Chars("False")
                                      ELSE <<>>,
                              !.err = IF d \in {"yes", "no"} THEN "none" ELSE d]
    /\ UNCHANGED <<rootfs, sess, store, writers>>

\* fs.getinfo(path, namespaces), reaching home_fs.getinfo
HomeGetinfo(s, path) ==
    /\ sess[s].pc = "ready"
    /\ CallNames("getinfo") # {}
    /\ LET g == IF sess[s].closed
                THEN [err |-> "FilesystemClosed", info |-> DirEntry]
                ELSE GetInfo(HomeTree(s), path)
       IN
       last' = [NoCall EXCEPT !.op = "getinfo", !.s = s, !.arg = path,
                              !.pre = sess[s].cwd, !.out = g.info,
                              !.err = g.err]
    /\ UNCHANGED <<rootfs, sess, store, writers>>

\* fs.makedir(path), or fs.mkd(path)
HomeMakedir(s, path, now) ==
    /\ sess[s].pc = "ready"
    /\ CallNames("makedir") # {}
    /\ LET r == WhenOpen(sess[s].closed, HomeTree(s),
                         MakedirResult(HomeTree(s), path, now))
       IN
       /\ rootfs' = [rootfs EXCEPT ![sess[s].name].tree = r.tree]
       /\ last' = [NoCall EXCEPT !.op = "makedir", !.s = s,
                                 !.arg = path,
                                 !.pre = sess[s].cwd, !.err = r.err]
    /\ UNCHANGED <<sess, store, writers>>

\* fs.makedirs(path)
HomeMakedirs(s, path, now) ==
    /\ sess[s].pc = "ready"
    /\ CallNames("makedirs") # {}
    /\ LET r == WhenOpen(sess[s].closed, HomeTree(s),
                         MakedirsResult(HomeTree(s), path, now))
       IN
       /\ rootfs' = [rootfs EXCEPT ![sess[s].name].tree = r.tree]
       /\ last' = [NoCall EXCEPT !.op = "makedirs", !.s = s,
                                 !.arg = path,
                                 !.pre = sess[s].cwd, !.err = r.err]
    /\ UNCHANGED <<sess, store, writers>>

\* fs.remove(path), or fs.dele(path)
HomeRemove(s, path) ==
    /\ sess[s].pc = "ready"
    /\ CallNames("remove") # {}
    /\ LET r == WhenOpen(sess[s].closed, HomeTree(s),
                         RemoveResult(HomeTree(s), path))
       IN
       /\ rootfs' = [rootfs EXCEPT ![sess[s].name].tree = r.tree]
       /\ last' = [NoCall EXCEPT !.op = "remove", !.s = s,
                                 !.arg = path,
                                 !.pre = sess[s].cwd, !.err = r.err]
    /\ UNCHANGED <<sess, store, writers>>

\* fs.removedir(path), or fs.rmd(path)
HomeRemovedir(s, path) ==
    /\ sess[s].pc = "ready"
    /\ CallNames("removedir") # {}
    /\ LET r == WhenOpen(sess[s].closed, HomeTree(s),
                         RemovedirResult(HomeTree(s), path))
       IN
       /\ rootfs' = [rootfs EXCEPT ![sess[s].name].tree = r.tree]
       /\ last' = [NoCall EXCEPT !.op = "removedir", !.s = s,
                                 !.arg = path,
                                 !.pre = sess[s].cwd, !.err = r.err]
    /\ UNCHANGED <<sess, store, writers>>

\* fs.removetree(path)
HomeRemovetree(s, path) ==
    /\ sess[s].pc = "ready"
    /\ CallNames("removetree") # {}
    /\ LET r == WhenOpen(sess[s].closed, HomeTree(s),
                         RemovetreeResult(HomeTree(s), path))
       IN
       /\ rootfs' = [rootfs EXCEPT ![sess[s].name].tree = r.tree]
       /\ last' = [NoCall EXCEPT !.op = "removetree", !.s = s,
                                 !.arg = path,
                                 !.pre = sess[s].cwd, !.err = r.err]
    /\ UNCHANGED <<sess, store, writers>>

\* fs.writebytes(path, contents)
HomeWritebytes(s, path, contents, now) ==
    /\ sess[s].pc = "ready"
    /\ CallNames("writebytes") # {}
    /\ LET r == WhenOpen(sess[s].closed, HomeTree(s),
                         WritebytesResult(HomeTree(s), path, contents, now))
       IN
       /\ rootfs' = [rootfs EXCEPT ![sess[s].name].tree = r.tree]
       /\ last' = [NoCall EXCEPT !.op = "writebytes", !.s = s,
                                 !.arg = path,
                                 !.pre = sess[s].cwd, !.err = r.err]
    /\ UNCHANGED <<sess, store, writers>>

\* fs.writetext(path, contents)
HomeWritetext(s, path, contents, now) ==
    /\ sess[s].pc = "ready"
    /\ CallNames("writetext") # {}
    /\ LET r == WhenOpen(sess[s].closed, HomeTree(s),
                         WritetextResult(HomeTree(s), path, contents, now))
       IN
       /\ rootfs' = [rootfs EXCEPT ![sess[s].name].tree = r.tree]
       /\ last' = [NoCall EXCEPT !.op = "writetext", !.s = s,
                                 !.arg = path,
                                 !.pre = sess[s].cwd, !.err = r.err]
    /\ UNCHANGED <<sess, store, writers>>

\* fs.writefile(path, file), file a binary file object that reads as contents:
\* it is read to its end and written as writebytes writes
HomeWritefile(s, path, contents, now) ==
    /\ sess[s].pc = "ready"
    /\ CallNames("writefile") # {}
    /\ LET r == WhenOpen(sess[s].closed, HomeTree(s),
                         WritebytesResult(HomeTree(s), path, contents, now))
       IN
       /\ rootfs' = [rootfs EXCEPT ![sess[s].name].tree = r.tree]
       /\ last' = [NoCall EXCEPT !.op = "writefile", !.s = s,
                                 !.arg = path,
                                 !.pre = sess[s].cwd, !.err = r.err]
    /\ UNCHANGED <<sess, store, writers>>

\* fs.upload(path, file), file a binary file object that reads as contents
HomeUpload(s, path, contents, now) ==
    /\ sess[s].pc = "ready"
    /\ CallNames("upload") # {}
    /\ LET r == WhenOpen(sess[s].closed, HomeTree(s),
                         WritebytesResult(HomeTree(s), path, contents, now))
       IN
       /\ rootfs' = [rootfs EXCEPT ![sess[s].name].tree = r.tree]
       /\ last' = [NoCall EXCEPT !.op = "upload", !.s = s,
                                 !.arg = path,
                                 !.pre = sess[s].cwd, !.err = r.err]
    /\ UNCHANGED <<sess, store, writers>>

\* fs.setinfo(path, {'details': {'modified': modified}})
HomeSetinfo(s, path, modified) ==
    /\ sess[s].pc = "ready"
    /\ CallNames("setinfo") # {}
    /\ LET r == WhenOpen(sess[s].closed, HomeTree(s),
                         SetinfoResult(HomeTree(s), path, modified))
       IN
       /\ rootfs' = [rootfs EXCEPT ![sess[s].name].tree = r.tree]
       /\ last' = [NoCall EXCEPT !.op = "setinfo", !.s = s,
                                 !.arg = path,
                                 !.pre = sess[s].cwd, !.err = r.err]
    /\ UNCHANGED <<sess, store, writers>>

\* fs.settimes(path, modified=modified)
HomeSettimes(s, path, modified) ==
    /\ sess[s].pc = "ready"
    /\ CallNames("settimes") # {}
    /\ LET r == WhenOpen(sess[s].closed, HomeTree(s),
                         SetinfoResult(HomeTree(s), path, modified))
       IN
       /\ rootfs' = [rootfs EXCEPT ![sess[s].name].tree = r.tree]
       /\ last' = [NoCall EXCEPT !.op = "settimes", !.s = s,
                                 !.arg = path,
                                 !.pre = sess[s].cwd, !.err = r.err]
    /\ UNCHANGED <<sess, store, writers>>

\* fs.touch(path)
HomeTouch(s, path, now) ==
    /\ sess[s].pc = "ready"
    /\ CallNames("touch") # {}
    /\ LET r == WhenOpen(sess[s].closed, HomeTree(s),
                         TouchResult(HomeTree(s), path, now))
       IN
       /\ rootfs' = [rootfs EXCEPT ![sess[s].name].tree = r.tree]
       /\ last' = [NoCall EXCEPT !.op = "touch", !.s = s,
                                 !.arg = path,
                                 !.pre = sess[s].cwd, !.err = r.err]
    /\ UNCHANGED <<sess, store, writers>>

\* fs.open(path, mode).close()
HomeOpen(s, path, mode, now) ==
    /\ sess[s].pc = "ready"
    /\ CallNames("open") # {}
    /\ LET r == WhenOpen(sess[s].closed, HomeTree(s),
                         OpenResult(HomeTree(s), path, mode, now))
       IN
       /\ rootfs' = [rootfs EXCEPT ![sess[s].name].tree = r.tree]
       /\ last' = [NoCall EXCEPT !.op = "open", !.s = s,
                                 !.arg = [path |-> path, mode |-> mode],
                                 !.pre = sess[s].cwd, !.err = r.err]
    /\ UNCHANGED <<sess, store, writers>>

\* fs.openbin(path, mode).close()
HomeOpenbin(s, path, mode, now) ==
    /\ sess[s].pc = "ready"
    /\ CallNames("openbin") # {}
    /\ LET r == WhenOpen(sess[s].closed, HomeTree(s),
                         OpenResult(HomeTree(s), path, mode, now))
       IN
       /\ rootfs' = [rootfs EXCEPT ![sess[s].name].tree = r.tree]
       /\ last' = [NoCall EXCEPT !.op = "openbin", !.s = s,
                                 !.arg = [path |-> path, mode |-> mode],
                                 !.pre = sess[s].cwd, !.err = r.err]
    /\ UNCHANGED <<sess, store, writers>>

\* fs.copy(src_path, dst_path)
HomeCopy(s, src_path, dst_path, now) ==
    /\ sess[s].pc = "ready"
    /\ CallNames("copy") # {}
    /\ LET r == CopyResult(HomeTree(s), src_path, dst_path, now) IN
       /\ rootfs' = [rootfs EXCEPT ![sess[s].name].tree = r.tree]
       /\ last' = [NoCall EXCEPT !.op = "copy", !.s = s,
                                 !.arg = [src |-> src_path, dst |-> dst_path],
                                 !.pre = sess[s].cwd, !.err = r.err]
    /\ UNCHANGED <<sess, store, writers>>

\* fs.move(src_path, dst_path)
HomeMove(s, src_path, dst_path) ==
    /\ sess[s].pc = "ready"
    /\ CallNames("move") # {}
    /\ LET r == MoveResult(HomeTree(s), src_path, dst_path) IN
       /\ rootfs' = [rootfs EXCEPT ![sess[s].name].tree = r.tree]
       /\ last' = [NoCall EXCEPT !.op = "move", !.s = s,
                                 !.arg = [src |-> src_path, dst |-> dst_path],
                                 !.pre = sess[s].cwd, !.err = r.err]
    /\ UNCHANGED <<sess, store, writers>>

\* fs.copydir(src_path, dst_path)
HomeCopydir(s, src_path, dst_path, now) ==
    /\ sess[s].pc = "ready"
    /\ CallNames("copydir") # {}
    /\ LET r == CopydirResult(HomeTree(s), src_path, dst_path, now) IN
       /\ rootfs' = [rootfs EXCEPT ![sess[s].name].tree = r.tree]
       /\ last' = [NoCall EXCEPT !.op = "copydir", !.s = s,
                                 !.arg = [src |-> src_path, dst |-> dst_path],
                                 !.pre = sess[s].cwd, !.err = r.err]
    /\ UNCHANGED <<sess, store, writers>>

\* fs.movedir(src_path, dst_path)
HomeMovedir(s, src_path, dst_path, now) ==
    /\ sess[s].pc = "ready"
    /\ CallNames("movedir") # {}
    /\ LET r == MovedirResult(HomeTree(s), src_path, dst_path, now) IN
       /\ rootfs' = [rootfs EXCEPT ![sess[s].name].tree = r.tree]
       /\ last' = [NoCall EXCEPT !.op = "movedir", !.s = s,
                                 !.arg = [src |-> src_path, dst |-> dst_path],
                                 !.pre = sess[s].cwd, !.err = r.err]
    /\ UNCHANGED <<sess, store, writers>>

\* The content of the file at path, nothing where there is none.
ContentAt(tree, path) ==
    LET n == NormPath(path) IN
    IF n.ok /\ n.comps \in DOMAIN tree THEN tree[n.comps].content ELSE <<>>

\* fs.appendbytes(path, data)
HomeAppendbytes(s, path, data, now) ==
    /\ sess[s].pc = "ready"
    /\ CallNames("appendbytes") # {}
    /\ Len(ContentAt(HomeTree(s), path)) + Len(data) <= MaxFile
    /\ LET r == WhenOpen(sess[s].closed, HomeTree(s),
                         AppendbytesResult(HomeTree(s), path, data, now))
       IN
       /\ rootfs' = [rootfs EXCEPT ![sess[s].name].tree = r.tree]
       /\ last' = [NoCall EXCEPT !.op = "appendbytes", !.s = s,
                                 !.arg = path,
                                 !.pre = sess[s].cwd, !.err = r.err]
    /\ UNCHANGED <<sess, store, writers>>

\* fs.appendtext(path, text)
HomeAppendtext(s, path, text, now) ==
    /\ sess[s].pc = "ready"
    /\ CallNames("appendtext") # {}
    /\ Len(ContentAt(HomeTree(s), path)) + Len(Utf8(text)) <= MaxFile
    /\ LET r == WhenOpen(sess[s].closed, HomeTree(s),
                         AppendtextResult(HomeTree(s), path, text, now))
       IN
       /\ rootfs' = [rootfs EXCEPT ![sess[s].name].tree = r.tree]
       /\ last' = [NoCall EXCEPT !.op = "appendtext", !.s = s,
                                 !.arg = path,
                                 !.pre = sess[s].cwd, !.err = r.err]
    /\ UNCHANGED <<sess, store, writers>>

\* fs.create(path, wipe)
HomeCreate(s, path, wipe, now) ==
    /\ sess[s].pc = "ready"
    /\ CallNames("create") # {}
    /\ LET r == WhenOpen(sess[s].closed, HomeTree(s),
                         CreateResult(HomeTree(s), path, wipe, now))
       IN
       /\ rootfs' = [rootfs EXCEPT ![sess[s].name].tree = r.tree]
       /\ last' = [NoCall EXCEPT !.op = "create", !.s = s,
                                 !.arg = [path |-> path, wipe |-> wipe],
                                 !.pre = sess[s].cwd,
                                 !.out = IF r.err # "none" THEN <<>>
                                         ELSE IF r.made THEN Chars("True")
                                         ELSE Chars("False"),
                                 !.err = r.err]
    /\ UNCHANGED <<sess, store, writers>>

----------------------------------------------------------------------------
(* format_list *)

\* stat.S_IFMT(mode), the mode & 61440 of line 228: the file-type bits
S_IFMT(mode) == (mode % 65536) - (mode % 4096)

S_IFLNK == 40960
S_IFDIR == 16384
S_IFREG == 32768

SIX_MONTHS == 180 * 24 * 60 * 60

Bit(mode, weight) == (mode \div weight) % 2 = 1

S_IFSOCK == 49152
S_IFBLK == 24576
S_IFCHR == 8192
S_IFIFO == 4096
S_ISUID == 2048
S_ISGID == 1024
S_ISVTX == 512

\* One rwx triple of stat.filemode: the execute column shows the special
\* bit (setuid, setgid or sticky) in lower case over an execute bit and in
\* upper case without one.
Rwx(mode, r, w, x, special, lower, upper) ==
    << IF Bit(mode, r) THEN "r" ELSE "-",
       IF Bit(mode, w) THEN "w" ELSE "-",
       IF Bit(mode, special)
       THEN (IF Bit(mode, x) THEN lower ELSE upper)
       ELSE (IF Bit(mode, x) THEN "x" ELSE "-") >>

\* stat.filemode(mode), line 210: the file type, then the three triples.
filemode(mode) ==
    LET type == S_IFMT(mode)
        t == IF type = S_IFREG THEN "-"
             ELSE IF type = S_IFDIR THEN "d"
             ELSE IF type = S_IFLNK THEN "l"
             ELSE IF type = S_IFBLK THEN "b"
             ELSE IF type = S_IFCHR THEN "c"
             ELSE IF type = S_IFIFO THEN "p"
             ELSE IF type = S_IFSOCK THEN "s"
             ELSE "?"
    IN << t >> \o Rwx(mode, 256, 128, 64, S_ISUID, "s", "S")
            \o Rwx(mode, 32, 16, 8, S_ISGID, "s", "S")
            \o Rwx(mode, 4, 2, 1, S_ISVTX, "t", "T")

\* time.gmtime: the civil date and time of a number of seconds since 1970.
gmtime(t) ==
    LET days == t \div 86400
        secs == t % 86400
        z == days + 719468
        era == z \div 146097
        doe == z - era * 146097
        yoe == (doe - doe \div 1460 + doe \div 36524 - doe \div 146096) \div 365
        doy == doe - (365 * yoe + yoe \div 4 - yoe \div 100)
        mp == (5 * doy + 2) \div 153
        m == IF mp < 10 THEN mp + 3 ELSE mp - 9
    IN [tm_year |-> yoe + era * 400 + (IF m <= 2 THEN 1 ELSE 0),
        tm_mon |-> m,
        tm_mday |-> doy - (153 * mp + 2) \div 5 + 1,
        tm_hour |-> secs \div 3600,
        tm_min |-> (secs % 3600) \div 60,
        tm_sec |-> secs % 60]

\* months_map of conpot.protocols.ftp.ftp_utils
months_map ==
    << "Jan", "Feb", "Mar", "Apr", "May", "Jun",
       "Jul", "Aug", "Sep", "Oct", "Nov", "Dec" >>

RECURSIVE Spaces(_)
Spaces(n) == IF n <= 0 THEN <<>> ELSE << " " >> \o Spaces(n - 1)

\* "%3s", "%8s": right-justified to at least w columns
PadLeft(s, w) == Spaces(w - Len(s)) \o s
\* "%-8s": left-justified to at least w columns
PadRight(s, w) == s \o Spaces(w - Len(s))

Str(n) == Chars(ToString(n))
\* strftime's "%d", "%H", "%M": two digits
TwoDigits(n) == IF n < 10 THEN << "0" >> \o Str(n) ELSE Str(n)

\* time.strftime(fmtstr, mtime) for the two formats of lines 224 and 226
strftime(fmtstr, tm) ==
    IF fmtstr = "%d  %Y"
    THEN TwoDigits(tm.tm_mday) \o Chars("  ") \o Str(tm.tm_year)
    ELSE TwoDigits(tm.tm_mday) \o Chars(" ") \o TwoDigits(tm.tm_hour)
            \o Chars(":") \o TwoDigits(tm.tm_min)

\* A subscript of the stat dict. A str key is looked up; a list is not
\* hashable, and dict.__getitem__ raises TypeError for it.
StrKey(name) == [type |-> "str", name |-> name]
ListKey(name) == [type |-> "list", name |-> name]

GetItem(st, key) ==
    IF key.type # "str" THEN [err |-> "TypeError", val |-> 0]
    ELSE [err |-> "none",
          val |-> CASE key.name = "st_mode" -> st.st_mode
                    [] key.name = "st_nlink" -> st.st_nlink
                    [] key.name = "st_size" -> st.st_size
                    [] key.name = "st_mtime" -> st.st_mtime]

\* line 235: "%s %3s %-8s %-8s %8s %s %s\r\n"
FormatLine(permission, nlinks, uname, gname, size, mtimestr, basename) ==
    permission \o Chars(" ") \o PadLeft(Str(nlinks), 3) \o Chars(" ")
        \o PadRight(uname, 8) \o Chars(" ") \o PadRight(gname, 8) \o Chars(" ")
        \o PadLeft(Str(size), 8) \o Chars(" ") \o mtimestr \o Chars(" ")
        \o basename \o Chars("\r\n")

NoLine == [err |-> "none", yields |-> FALSE, line |-> <<>>]

\* A turn of the loop that looks the owner's name up from st_uid, as the
\* line commented out at 217 would: KeyError where the host knows no such user.
FormatEntryDisclosing(tree, basedir, basename, now) ==
    LET file == basedir \o basename
        r == StatResult(tree, file)
        st == r.st
        age == GetItem(st, ListKey("st_mtime"))
    IN IF r.err # "none" THEN [NoLine EXCEPT !.err = r.err]
       ELSE IF st.st_uid \notin { 0, 1000 } THEN [NoLine EXCEPT !.err = "KeyError"]
       ELSE IF age.err # "none" THEN [NoLine EXCEPT !.err = age.err]
       ELSE NoLine

\* One turn of the loop, lines 205-236: the line it yields, if it yields
\* one, or the exception that leaves the generator.
FormatEntry(tree, basedir, basename, now) ==
    LET file == basedir \o basename
        r == StatResult(tree, file)
        st == r.st
        age == GetItem(st, ListKey("st_mtime"))       \* st[['st_mtime']]
        mtime == gmtime(GetItem(st, StrKey("st_mtime")).val)
        fmtstr == IF (now - age.val) > SIX_MONTHS THEN "%d  %Y" ELSE "%d %H:%M"
        mtimestr == Chars(months_map[mtime.tm_mon]) \o Chars(" ")
                        \o strftime(fmtstr, mtime)
        link == ReadlinkResult(tree, file)
    IN IF r.err # "none" THEN [NoLine EXCEPT !.err = r.err]
       ELSE IF age.err # "none" THEN [NoLine EXCEPT !.err = age.err]
       ELSE IF S_IFMT(st.st_mode) = S_IFLNK
       THEN IF link.err # "none" THEN [NoLine EXCEPT !.err = link.err]
            ELSE IF link.target.none
            THEN [NoLine EXCEPT !.err = "TypeError"]   \* str + None
            ELSE [err |-> "none", yields |-> TRUE,
                  line |-> FormatLine(filemode(st.st_mode), st.st_nlink,
                               Chars("owner"), Chars("group"), st.st_size,
                               mtimestr,
                               basename \o Chars(" -> ") \o link.target.str)]
       ELSE NoLine                   \* lines 235-236 are inside the if

RECURSIVE FormatFrom(_, _, _, _, _, _)
FormatFrom(tree, basedir, listing, now, i, lines) ==
    IF i > Len(listing) THEN [lines |-> lines, err |-> "none"]
    ELSE LET e == FormatEntry(tree, basedir, listing[i], now) IN
         IF e.err # "none" THEN [lines |-> lines, err |-> e.err]
         ELSE FormatFrom(tree, basedir, listing, now, i + 1,
                         IF e.yields THEN Append(lines, e.line) ELSE lines)

\* format_list, lines 190-236, its generator run to the end: the lines it
\* yielded and the exception that ended it, if one did.
FormatListResult(tree, basedir, listing, now) ==
    FormatFrom(tree, basedir, listing, now, 1, <<>>)

\* The listings the protocol adapter asks for, and the clock readings.
Listings ==
    { <<>>,
      << Chars("music.mp3") >>,
      << Chars("l") >>,
      << Chars("f"), Chars("music.mp3"), Chars("l") >>,
      << Chars("nope") >> }

Clock == { 1670000000, 1700000000 }

FormatList(s, basedir, listing, now) ==
    /\ sess[s].pc = "ready"
    /\ LET r == IF sess[s].closed /\ listing # <<>>
                THEN [lines |-> <<>>,
                      err |-> IF basedir \o listing[1] = <<>>
                              THEN "AssertionError" ELSE "FilesystemClosed"]
                ELSE FormatListResult(HomeTree(s), basedir, listing, now)
       IN
       last' = [NoCall EXCEPT !.op = "format_list", !.s = s,
                              !.arg = [basedir |-> basedir, listing |-> listing,
                                       now |-> now],
                              !.pre = sess[s].cwd, !.out = r.lines,
                              !.err = r.err]
    /\ UNCHANGED <<rootfs, sess, store, writers>>

----------------------------------------------------------------------------
(* sanitize_file_name *)

\* A reading of datetime.now(): a naive local date and time, held as the
\* seconds of that wall-clock time since 1970-01-01 00:00:00 and the microsecond.
Reading(s, us) == [s |-> s, us |-> us]

\* 14 Nov 2023 22:13:20 on the wall clock, and moments after it: within the
\* same second, the next second, and in the next minute.
WallBase == 1700000000
Readings == { Reading(WallBase + d, us) : d \in {0, 1, 40}, us \in {0, 500000} }

LowerCase == Chars("abcdefghijklmnopqrstuvwxyz")
UpperCase == Chars("ABCDEFGHIJKLMNOPQRSTUVWXYZ")
Digits == Chars("0123456789")

\* str.lower() on one ASCII character
ToLower(c) ==
    IF \E i \in 1..Len(UpperCase) : UpperCase[i] = c
    THEN LowerCase[CHOOSE i \in 1..Len(UpperCase) : UpperCase[i] = c]
    ELSE c

IsSlugChar(c) ==
    \/ \E i \in 1..Len(LowerCase) : LowerCase[i] = c
    \/ \E i \in 1..Len(Digits) : Digits[i] = c

RECURSIVE SlugFrom(_, _, _)
SlugFrom(text, i, acc) ==
    IF i > Len(text)
    THEN IF acc # <<>> /\ acc[Len(acc)] = "-"
         THEN SubSeq(acc, 1, Len(acc) - 1) ELSE acc
    ELSE LET c == ToLower(text[i]) IN
         IF IsSlugChar(c) THEN SlugFrom(text, i + 1, Append(acc, c))
         ELSE IF c = "'" THEN SlugFrom(text, i + 1, acc)
         ELSE IF acc = <<>> \/ acc[Len(acc)] = "-" THEN SlugFrom(text, i + 1, acc)
         ELSE SlugFrom(text, i + 1, Append(acc, "-"))

\* slugify(name) on ASCII text: lower-cased, quotes dropped, every run of
\* other characters turned into one "-", none left at either end.
slugify(text) == SlugFrom(text, 1, <<>>)

\* A stamp that stops at the minute.
NowStampMinutes(now) ==
    LET tm == gmtime(now.s) IN
    Str(tm.tm_year) \o Chars("-") \o TwoDigits(tm.tm_mon) \o Chars("-")
        \o TwoDigits(tm.tm_mday) \o Chars(" ") \o TwoDigits(tm.tm_hour)
        \o Chars(":") \o TwoDigits(tm.tm_min)

\* now.strftime("%Y-%m-%d %H:%M:%S"), line 23: the microsecond is not shown.
NowStamp(now) ==
    LET tm == gmtime(now.s) IN
    Str(tm.tm_year) \o Chars("-") \o TwoDigits(tm.tm_mon) \o Chars("-")
        \o TwoDigits(tm.tm_mday) \o Chars(" ") \o TwoDigits(tm.tm_hour)
        \o Chars(":") \o TwoDigits(tm.tm_min) \o Chars(":")
        \o TwoDigits(tm.tm_sec)

\* sanitize_file_name, lines 17-23, with the reading datetime.now() gave it
sanitize_file_name(name, now) == NowStamp(now) \o Chars(" - ") \o slugify(name)

\* The names clients give their uploads.
OrigNames == { Chars("a.txt"), Chars("A txt"), Chars("b") }

NoEarlier == [called |-> FALSE, name |-> <<>>, now |-> Reading(0, 0), out |-> <<>>]

\* One call of sanitize_file_name; the call before it is kept beside it.
Sanitize(name, now) ==
    /\ last' = [NoCall EXCEPT
                   !.op = "sanitize",
                   !.arg = [name |-> name, now |-> now],
                   !.pre = IF last.op = "sanitize"
                           THEN [called |-> TRUE, name |-> last.arg.name,
                                 now |-> last.arg.now, out |-> last.out]
                           ELSE NoEarlier,
                   !.out = sanitize_file_name(name, now)]
    /\ UNCHANGED <<rootfs, sess, store, writers>>

----------------------------------------------------------------------------
(* FileWriter *)

\* The names uploads are opened under.
UploadNames == { "n1", "n2" }

\* The chunks the protocol adapter hands to write_chunk.
Chunks == { << 1 >>, << 2, 3 >> }

NoFile == [exists |-> FALSE, data |-> <<>>]

NoWriter == [pc |-> "idle", name |-> "", f |-> "unset", buf |-> <<>>,
             accepted |-> <<>>, chunk |-> <<>>, ret |-> 0, err |-> "none",
             exit |-> "none"]

UploadInit ==
    /\ store = [n \in UploadNames |-> NoFile]
    /\ writers = [u \in 1..NWriters |-> NoWriter]

\* open(name, 'wb'): creates or truncates
OpenTruncating(file) ==
    [err |-> "none", file |-> [exists |-> TRUE, data |-> <<>>]]

\* _open_file, lines 41-43: open(self.name, 'xb') creates the file, and
\* fails where one exists.
OpenExclusive(file) ==
    IF file.exists THEN [err |-> "FileExistsError", file |-> file]
    ELSE [err |-> "none", file |-> [exists |-> TRUE, data |-> <<>>]]

\* __init__, lines 37-39. Where open raises, _f is never set.
Open(u, name) ==
    /\ writers[u].pc = "idle"
    /\ LET r == OpenExclusive(store[name]) IN
       /\ store' = [store EXCEPT ![name] = r.file]
       /\ writers' = [writers EXCEPT ![u] =
             [NoWriter EXCEPT !.name = name, !.err = r.err,
                              !.pc = IF r.err = "none" THEN "open" ELSE "failed",
                              !.f = IF r.err = "none" THEN "open" ELSE "unset"]]
    /\ UNCHANGED jailvars

\* a write that goes past the buffer: the chunk reaches the file ahead of
\* the bytes still buffered, and the call reports what the file now holds
BufferedWriteUnordered(file, buf, data) ==
    [file |-> [file EXCEPT !.data = @ \o data], buf |-> buf,
     n |-> Len(file.data) + Len(data)]

\* self._f.write(data), line 50: the chunk joins the file object's buffer,
\* and a buffer that would overflow is written out first; n is the number
\* of bytes the call reports written.
BufferedWrite(file, buf, data) ==
    IF Len(buf) + Len(data) <= BufCap
    THEN [file |-> file, buf |-> buf \o data, n |-> Len(data)]
    ELSE IF Len(data) <= BufCap
    THEN [file |-> [file EXCEPT !.data = @ \o buf], buf |-> data,
          n |-> Len(data)]
    ELSE [file |-> [file EXCEPT !.data = @ \o buf \o data], buf |-> <<>>,
          n |-> Len(data)]

\* write_chunk, lines 49-53
WriteChunk(u, data) ==
    /\ writers[u].pc = "open"
    /\ Len(writers[u].accepted) + Len(data) <= MaxBytes
    /\ LET w == writers[u]
           r == BufferedWrite(store[w.name], w.buf, data)
       IN /\ store' = [store EXCEPT ![w.name] = r.file]
          /\ writers' = [writers EXCEPT ![u].buf = r.buf,
                                        ![u].accepted = @ \o data,
                                        ![u].chunk = data,
                                        ![u].ret = r.n]
    /\ UNCHANGED jailvars

\* _flush, lines 45-47
Flush(u) ==
    /\ writers[u].pc = "open"
    /\ writers[u].buf # <<>>
    /\ LET w == writers[u] IN
       /\ store' = [store EXCEPT ![w.name].data = @ \o w.buf]
       /\ writers' = [writers EXCEPT ![u].buf = <<>>]
    /\ UNCHANGED jailvars

\* The ways the session leaves the upload. FileWriter has no close method
\* and is no context manager: no code of it runs here.
ExitPaths == { "complete", "terminated", "error" }

Exit(u, how) ==
    /\ writers[u].pc = "open"
    /\ writers' = [writers EXCEPT ![u].pc = "exited", ![u].exit = how]
    /\ UNCHANGED <<store, rootfs, sess, last>>

\* The file object's close: the buffer is written out.
CloseFile(file, buf) == [file EXCEPT !.data = @ \o buf]

\* __del__, lines 55-57, whenever the collector runs it for an object the
\* session has let go of. (Where open raised, _f was never set: __del__
\* raises AttributeError, which the interpreter discards, and changes nothing.)
Finalize(u) ==
    /\ writers[u].pc = "exited"
    /\ writers[u].f = "open"
    /\ LET w == writers[u] IN
       /\ store' = [store EXCEPT ![w.name] = CloseFile(@, w.buf)]
       /\ writers' = [writers EXCEPT ![u].f = "closed", ![u].buf = <<>>]
    /\ UNCHANGED jailvars

UploadNext ==
    \E u \in 1..NWriters :
        \/ \E n \in UploadNames : Open(u, n)
        \/ \E d \in Chunks : WriteChunk(u, d)
        \/ Flush(u)
        \/ \E how \in ExitPaths : Exit(u, how)
        \/ Finalize(u)

----------------------------------------------------------------------------
(* Specifications *)

\* One jail, from its construction on, driven by the protocol adapter.
Init == JailInit(NJail) /\ UploadInit

\* The calls made on a jail, from its construction on. The sessions of this
\* specification ask for the same protocol name: what sessions with different
\* names do to the shared root is the subject of SpecInit.
JailNames == { Chars("f") }

Next ==
    \E s \in 1..NJail :
        \/ \E n \in JailNames : Construct(s, n)
        \/ MakeDir(s)
        \/ \E now \in MirrorClock : MirrorStep(s, now)
        \/ \E p \in RootArgs : SetRoot(s, p)
        \/ \E p \in PathArgs : Chdir(s, p)
        \/ Getcwd(s)
        \/ \E p \in QueryArgs : Stat(s, p)
        \/ \E p \in QueryArgs : Readlink(s, p)
        \/ \E l \in Listings, now \in Clock : FormatList(s, Chars("/"), l, now)
        \/ Utime(s)
        \/ Getmtime(s)
        \/ GetPermissions(s)
        \/ SetPermissions(s)
        \/ \E item \in AttrItems : HomeGetAttr(s, item)
        \/ \E p \in HomeQueryArgs : HomeIsdir(s, p)
        \/ \E p \in HomeQueryArgs : HomeGetinfo(s, p)
        \/ \E p \in MakedirArgs, now \in FsClock : HomeMakedir(s, p, now)
        \/ \E p \in RemoveArgs : HomeRemove(s, p)
        \/ \E p \in RemovedirArgs : HomeRemovedir(s, p)
        \/ \E a \in MovedirArgs, now \in FsClock :
               HomeMovedir(s, a.src, a.dst, now)
        \/ HomeClose(s)

Spec == Init /\ [][Next]_vars

\* One jail, its home_fs driven through __getattr__ by every call that
\* changes the subtree, and read by stat and format_list.
SpecHomeFsInit == JailInit(NJail) /\ UploadInit
SpecHomeFsNext ==
    \E s \in 1..NJail :
        \/ \E n \in JailNames : Construct(s, n)
        \/ MakeDir(s)
        \/ \E now \in MirrorClock : MirrorStep(s, now)
        \/ \E p \in HomeStatArgs : Stat(s, p)
        \/ \E l \in HomeListings, now \in Clock :
               FormatList(s, Chars("/"), l, now)
        \/ \E p \in HomeQueryArgs : HomeIsdir(s, p)
        \/ \E p \in HomeQueryArgs : HomeGetinfo(s, p)
        \/ \E p \in MakedirArgs, now \in FsClock : HomeMakedir(s, p, now)
        \/ \E p \in MakedirsArgs, now \in FsClock : HomeMakedirs(s, p, now)
        \/ \E p \in RemoveArgs : HomeRemove(s, p)
        \/ \E p \in RemovedirArgs : HomeRemovedir(s, p)
        \/ \E p \in RemovetreeArgs : HomeRemovetree(s, p)
        \/ \E p \in WriteArgs, c \in WriteContents, now \in FsClock :
               HomeWritebytes(s, p, c, now)
        \/ \E p \in WriteArgs, c \in WriteTexts, now \in FsClock :
               HomeWritetext(s, p, c, now)
        \/ \E p \in WriteArgs, c \in WriteContents, now \in FsClock :
               HomeWritefile(s, p, c, now)
        \/ \E p \in WriteArgs, c \in WriteContents, now \in FsClock :
               HomeUpload(s, p, c, now)
        \/ \E p \in WriteArgs, c \in WriteContents, now \in FsClock :
               HomeAppendbytes(s, p, c, now)
        \/ \E p \in WriteArgs, c \in WriteTexts, now \in FsClock :
               HomeAppendtext(s, p, c, now)
        \/ \E p \in WriteArgs, wipe \in BOOLEAN, now \in FsClock :
               HomeCreate(s, p, wipe, now)
        \/ \E p \in WriteArgs, now \in FsClock : HomeTouch(s, p, now)
        \/ \E p \in WriteArgs, now \in FsClock : HomeSetinfo(s, p, now)
        \/ \E p \in WriteArgs, now \in FsClock : HomeSettimes(s, p, now)
        \/ \E p \in WriteArgs, m \in OpenModes, now \in FsClock :
               HomeOpen(s, p, m, now)
        \/ \E p \in WriteArgs, m \in OpenModes, now \in FsClock :
               HomeOpenbin(s, p, m, now)
        \/ \E a \in CopyArgs, now \in FsClock : HomeCopy(s, a.src, a.dst, now)
        \/ \E a \in CopyArgs : HomeMove(s, a.src, a.dst)
        \/ \E a \in CopydirArgs, now \in FsClock :
               HomeCopydir(s, a.src, a.dst, now)
        \/ \E a \in MovedirArgs, now \in FsClock :
               HomeMovedir(s, a.src, a.dst, now)
        \/ HomeClose(s)
SpecHomeFs == SpecHomeFsInit /\ [][SpecHomeFsNext]_vars

\* Sessions constructing their AbstractFS against one shared root_fs.
SpecInitInit == JailInit(NSess) /\ UploadInit
SpecInitNext ==
    \E s \in 1..NSess :
        \/ \E n \in ProtoNames : Construct(s, n)
        \/ MakeDir(s)
        \/ \E now \in MirrorClock : MirrorStep(s, now)
SpecInit == SpecInitInit /\ [][SpecInitNext]_vars

\* Uploads into one shared store.
SpecUploadInit == JailInit(NJail) /\ UploadInit
SpecUpload == SpecUploadInit /\ [][UploadNext]_vars

\* The sanitizer called again and again, with any name at any reading.
SpecSanitizeInit == JailInit(NJail) /\ UploadInit
SpecSanitizeNext == \E name \in OrigNames, now \in Readings : Sanitize(name, now)
SpecSanitize == SpecSanitizeInit /\ [][SpecSanitizeNext]_vars

----------------------------------------------------------------------------
(* Properties *)

IsPrefix(p, q) == Len(p) <= Len(q) /\ SubSeq(q, 1, Len(p)) = p

EndsWith(s, suffix) ==
    Len(suffix) <= Len(s) /\ SubSeq(s, Len(s) - Len(suffix) + 1, Len(s)) = suffix

Contains(s, part) ==
    \E k \in 1..(Len(s) - Len(part) + 1) : SubSeq(s, k, k + Len(part) - 1) = part

\* path, with its "." and ".." segments resolved, is at or below home
AtOrBelow(path, home) ==
    LET c == NormPath(path)
        h == NormPath(home)
    IN c.ok /\ h.ok /\ IsPrefix(h.comps, c.comps)

\* C1 (containment): whatever chdir calls a jail has served, its working
\* directory, with "." and ".." resolved, is at or below its home.
C1_Containment ==
    \A s \in DOMAIN sess :
        sess[s].pc = "ready" => AtOrBelow(sess[s].cwd, sess[s].home)

\* C2: a chdir whose target is no directory of the jail fails with
\* NotADirectory, which reaches the caller; cwd is as it was before the call
\* and the jail stays usable.
C2_ChdirMissingFails ==
    (/\ last.op = "chdir"
     /\ last.arg # <<>>
     /\ IsDir(HomeTree(last.s), last.pre \o last.arg) # "yes")
    => /\ last.err = "NotADirectory"
       /\ sess[last.s].cwd = last.pre
       /\ sess[last.s].pc = "ready"

\* C3: getcwd returns a canonical home-relative path: it begins with "/",
\* has no "." or ".." segment, and is "/" while cwd is home (the protocol
\* name is no part of it).
C3_GetcwdCanonical ==
    last.op = "getcwd"
    => /\ last.out # <<>> /\ last.out[1] = Slash
       /\ \A i \in 1..Len(Split(last.out)) :
              Split(last.out)[i] \notin { << Dot >>, << Dot, Dot >> }
       /\ (last.pre = sess[last.s].home => last.out = << Slash >>)

\* The sessions whose makedir for protocol name n has returned, and those of
\* them it returned a subtree to.
TriedInit(n) ==
    { s \in DOMAIN sess : sess[s].name = n /\ sess[s].pc \notin {"new", "makedir"} }
WonInit(n) == { s \in TriedInit(n) : sess[s].err = "none" }

\* C4: however the initialize calls of concurrent sessions interleave, for
\* each protocol name exactly one call creates the subtree and every other
\* call for that name fails with DirectoryExists (AlreadyExists); a subtree
\* holds what its one creator has mirrored into it and nothing else, so
\* calls for distinct names all succeed and leave each other's subtree alone.
C4_ExclusiveInitialize ==
    \A n \in ProtoNames :
        /\ rootfs[n].exists <=> TriedInit(n) # {}
        /\ TriedInit(n) # {} => WonInit(n) = { rootfs[n].by }
        /\ \A s \in TriedInit(n) \ WonInit(n) :
               sess[s].pc = "failed" /\ sess[s].err = "DirectoryExists"
        /\ \A s \in WonInit(n) :
               /\ sess[s].pc \in {"mirror", "ready"}
               /\ DOMAIN rootfs[n].tree =
                      { SrcOrder[i] : i \in 1..(sess[s].mi - 1) }
               /\ \A p \in DOMAIN rootfs[n].tree :
                      \E now \in MirrorClock :
                          rootfs[n].tree[p] = MirrorEntry(p, now)

\* Two sessions initialized the same name: one has its jail, mirrored in
\* full, and the other failed.
C4_Witness ==
    \E s, t \in DOMAIN sess :
        /\ s # t /\ sess[s].name = sess[t].name
        /\ sess[s].pc = "ready" /\ sess[t].pc = "failed"

\* The uploads that have opened name n, and those of them whose open succeeded.
TriedOpen(n) ==
    { u \in DOMAIN writers : writers[u].name = n /\ writers[u].pc # "idle" }
WonOpen(n) == { u \in TriedOpen(n) : writers[u].err = "none" }

\* C5: however the opens of concurrent uploads under one name interleave,
\* exactly one succeeds and every other fails with FileExistsError
\* (AlreadyExists); the stored file holds the bytes of that one upload, in
\* order, never truncated by a later open nor mixed with another's bytes.
C5_ExclusiveUpload ==
    \A n \in UploadNames :
        /\ store[n].exists <=> TriedOpen(n) # {}
        /\ TriedOpen(n) # {} => Cardinality(WonOpen(n)) = 1
        /\ \A u \in TriedOpen(n) \ WonOpen(n) :
               writers[u].pc = "failed" /\ writers[u].err = "FileExistsError"
        /\ \A u \in WonOpen(n) :
               store[n].data \o writers[u].buf = writers[u].accepted

\* Two uploads opened the same name: one failed, and the other has written
\* bytes that are in the store.
C5_Witness ==
    \E u, v \in DOMAIN writers :
        /\ u # v /\ writers[u].name = writers[v].name
        /\ writers[u].pc = "failed"
        /\ writers[v].err = "none" /\ writers[v].pc # "idle"
        /\ store[writers[v].name].data # <<>>

\* C6 (scoped release): once the session has left an upload, on whichever
\* exit path, the handle is closed and every accepted byte is in the store,
\* whether or not the finalizer has run.
C6_ScopedRelease ==
    \A u \in DOMAIN writers :
        writers[u].pc = "exited"
        => /\ writers[u].f = "closed"
           /\ store[writers[u].name].data = writers[u].accepted

\* C7 (upload round trip): write_chunk returns the length of its chunk, and
\* once the handle is closed the stored file is the concatenation of the
\* chunks in call order.
C7_UploadRoundTrip ==
    \A u \in DOMAIN writers :
        (writers[u].pc # "idle" /\ writers[u].err = "none")
        => /\ writers[u].ret = Len(writers[u].chunk)
           /\ (writers[u].f = "closed"
               => store[writers[u].name].data = writers[u].accepted)

\* Two uploads of the same two chunks, written in opposite orders, have been
\* closed; the first one's last call was the two-byte chunk.
C7_Witness ==
    \E u, v \in DOMAIN writers :
        /\ writers[u].f = "closed"
        /\ writers[u].accepted = << 1, 2, 3 >>
        /\ writers[u].chunk = << 2, 3 >>
        /\ writers[u].ret = 2
        /\ writers[v].f = "closed"
        /\ writers[v].accepted = << 2, 3, 1 >>
        /\ writers[v].chunk = << 1 >>

\* The names of listing are all entries of the jail under basedir.
AllExist(tree, basedir, listing) ==
    \A i \in 1..Len(listing) :
        listing[i] # <<>> /\ GetInfo(tree, basedir \o listing[i]).err = "none"

\* C8: format_list yields exactly one CRLF-terminated line per name of
\* listing, in listing's order, whatever kind of entry each name is.
C8_OneLinePerName ==
    (/\ last.op = "format_list"
     /\ AllExist(HomeTree(last.s), last.arg.basedir, last.arg.listing))
    => /\ last.err = "none"
       /\ Len(last.out) = Len(last.arg.listing)
       /\ \A i \in 1..Len(last.out) :
              /\ EndsWith(last.out[i], Chars("\r\n"))
              /\ Contains(last.out[i], Chars(" ") \o last.arg.listing[i])

\* C9 (listing exactness): for music.mp3, mode 0644, 1 link, size 7045120,
\* mtime 2 Sep 2022 and more than 180 days old, format_list produces exactly
\* this line.
C9_ListingExactness ==
    (/\ last.op = "format_list"
     /\ last.arg.listing = << Chars("music.mp3") >>
     /\ AllExist(HomeTree(last.s), last.arg.basedir, last.arg.listing)
     /\ last.arg.now - MusicEntry.st_mtime > SIX_MONTHS)
    => /\ last.err = "none"
       /\ last.out = << Chars("-rw-r--r--   1 owner    group    7045120 Sep 02  2022 music.mp3\r\n") >>

\* The entry at path is a symbolic link.
IsLink(tree, path) ==
    /\ path # <<>>
    /\ GetInfo(tree, path).err = "none"
    /\ S_IFMT(GetInfo(tree, path).info.st_mode) = S_IFLNK

\* The entry at path exists in the jail.
Exists(tree, path) == path # <<>> /\ GetInfo(tree, path).err = "none"

\* C11: readlink of a path that exists and is no symbolic link fails with
\* NotASymlink; readlink of a symbolic link returns its stored target as it
\* is, unresolved.
C11_ReadlinkNotASymlink ==
    (last.op = "readlink" /\ Exists(HomeTree(last.s), last.arg))
    => IF IsLink(HomeTree(last.s), last.arg)
       THEN /\ last.err = "none"
            /\ last.out = GetInfo(HomeTree(last.s), last.arg).info.target
       ELSE last.err = "NotASymlink"

UnimplementedOps == { "utime", "getmtime", "get_permissions", "set_permissions" }

\* C12: permission get, permission set, utime and getmtime each fail with
\* NotImplementedError when called; none returns normally.
C12_UnimplementedRaise ==
    last.op \in UnimplementedOps => last.err = "NotImplementedError"

\* C13: in every state of a constructed jail, whatever chdir calls and
\* assignments to root came before, home is root followed by the protocol
\* name; and right after initialisation, before any call, cwd is home.
C13_HomeUnderRoot ==
    \A s \in DOMAIN sess :
        sess[s].pc # "new" =>
            /\ sess[s].home = sess[s].root \o sess[s].name
            /\ (sess[s].pc = "ready" /\ last.op = "none"
                    => sess[s].cwd = sess[s].home)

\* The relative paths of the source tree.
SrcPaths == { SrcOrder[i] : i \in 1..Len(SrcOrder) }

\* C14 (mirror fidelity): when a jail has been initialised and no call has
\* been made on it yet, every file, directory
\* and symbolic link of the source is in the jail at the same relative path,
\* as the same kind of entry with the same bytes or the same link target, and
\* the jail holds no entry the source lacks.
C14_MirrorFidelity ==
    \A s \in DOMAIN sess :
        (sess[s].pc = "ready" /\ last.op = "none") =>
            /\ DOMAIN HomeTree(s) = SrcPaths
            /\ \A p \in SrcPaths :
                   /\ HomeTree(s)[p].kind = SrcEntry(p).kind
                   /\ HomeTree(s)[p].content = SrcEntry(p).content
                   /\ HomeTree(s)[p].target = SrcEntry(p).target

\* The time between two readings, in microseconds.
Apart(r1, r2) ==
    LET d == (r1.s - r2.s) * 1000000 + (r1.us - r2.us) IN IF d < 0 THEN -d ELSE d

\* C15: the identifier is determined by the name and the second of the clock
\* reading, so two calls with the same name within one clock second give the
\* same identifier; and two calls with the same name whose readings are a
\* second or more apart give different identifiers.
C15_SanitizerSeconds ==
    (last.op = "sanitize" /\ last.pre.called /\ last.pre.name = last.arg.name)
    => /\ last.pre.now.s = last.arg.now.s => last.out = last.pre.out
       /\ Apart(last.pre.now, last.arg.now) >= 1000000 => last.out # last.pre.out

\* The same name was sanitized twice with the readings exactly one second
\* apart, and the two identifiers differ in their seconds.
C15_Witness ==
    /\ last.op = "sanitize" /\ last.pre.called
    /\ last.pre.name = last.arg.name
    /\ last.arg.name = Chars("a.txt")
    /\ last.out = Chars("2023-11-14 22:13:21 - a-txt")
    /\ last.pre.out = Chars("2023-11-14 22:13:20 - a-txt")
    /\ Apart(last.pre.now, last.arg.now) = 1000000

\* The owner and group columns of a listing line: they follow the ten
\* characters of the mode, a space, the link count in three columns and a space.
OwnerGroupField(line) ==
    IF Len(line) >= 32 THEN SubSeq(line, 16, 32) ELSE <<>>

\* The owners an entry of the jail could have on the host.
OwnerIds == { 0, 4242 }

\* tree, every entry of it owned by uid and gid.
WithOwner(tree, uid, gid) ==
    [p \in DOMAIN tree |-> [tree[p] EXCEPT !.st_uid = uid, !.st_gid = gid]]

\* C16 (ownership non-disclosure): what format_list gives its caller does
\* not depend on st_uid and st_gid. Had the entries of the jail any other
\* owner and group, the call would have yielded the same lines and ended
\* the same way; and the owner and group columns of every line it yields
\* are the fixed words owner and group.
C16_OwnershipNonDisclosure ==
    last.op = "format_list"
    => /\ \A i \in 1..Len(last.out) :
              OwnerGroupField(last.out[i]) = Chars("owner    group   ")
       /\ ~sess[last.s].closed
          => \A uid, gid \in OwnerIds :
                 FormatListResult(WithOwner(HomeTree(last.s), uid, gid),
                                  last.arg.basedir, last.arg.listing,
                                  last.arg.now)
                     = [lines |-> last.out, err |-> last.err]

\* format_list was called on an open jail for music.mp3 and for a directory
\* made since, both there and owned by the process itself, which is none
\* of the other owners.
C16_Witness ==
    /\ last.op = "format_list"
    /\ ~sess[last.s].closed
    /\ last.arg.listing = << Chars("music.mp3"), Chars("new") >>
    /\ AllExist(HomeTree(last.s), last.arg.basedir, last.arg.listing)
    /\ \A p \in DOMAIN HomeTree(last.s) :
           HomeTree(last.s)[p].st_uid \notin OwnerIds

\* The four values stat's caller reads are those of entry.
SameStat(out, entry) ==
    /\ out.st_mode = entry.st_mode
    /\ out.st_nlink = entry.st_nlink
    /\ out.st_size = entry.st_size
    /\ out.st_mtime = entry.st_mtime

\* The entry a path that normalises inside the jail names, the jail's root
\* for the empty list of names.
EntryAt(tree, comps) == IF comps = <<>> THEN DirEntry ELSE tree[comps]

\* C17 as stated: stat fails with NotFound for every path that names no
\* entry inside the jail and returns the entry's mode, link count, size and
\* modification time for every other path, leaving cwd as it was.
C17_StatNotFound ==
    (last.op = "stat" /\ last.arg # <<>>)
    => LET n == NormPath(last.arg)
           inside == n.ok /\ (n.comps = <<>> \/ n.comps \in DOMAIN HomeTree(last.s))
       IN /\ sess[last.s].cwd = last.pre
          /\ IF inside
             THEN /\ last.err = "none"
                  /\ SameStat(last.out, EntryAt(HomeTree(last.s), n.comps))
             ELSE last.err = "ResourceNotFound"

\* C18 (timestamp format): for every entry format_list is given, the
\* comparison of the entry's age with 180 days completes and picks a format:
\* "Mon DD HH:MM" when now - mtime is at most 180 days, "Mon DD  YYYY" when
\* it is more, and the entry's line carries the time so rendered.
C18_TimestampFormat ==
    (/\ last.op = "format_list"
     /\ AllExist(HomeTree(last.s), last.arg.basedir, last.arg.listing))
    => /\ last.err # "TypeError"
       /\ \A i \in 1..Len(last.arg.listing) :
              LET mtime == GetInfo(HomeTree(last.s),
                               last.arg.basedir \o last.arg.listing[i]).info.st_mtime
                  fmtstr == IF last.arg.now - mtime > SIX_MONTHS
                            THEN "%d  %Y" ELSE "%d %H:%M"
              IN /\ i <= Len(last.out)
                 /\ Contains(last.out[i],
                        Chars(" ") \o Chars(months_map[gmtime(mtime).tm_mon])
                          \o Chars(" ") \o strftime(fmtstr, gmtime(mtime))
                          \o Chars(" ") \o last.arg.listing[i])

\* C19: sanitize_file_name leaves no duplicates among the names files are
\* written under: two uploads that differ in their original name or in the
\* moment they arrive are given different identifiers, so the exclusive open
\* of the later one finds no file of that name.
C19_NoDuplicateNames ==
    (/\ last.op = "sanitize" /\ last.pre.called
     /\ (last.pre.name # last.arg.name \/ last.pre.now # last.arg.now))
    => last.out # last.pre.out

\* C20: cwd only grows by appending. In every state cwd is home followed by
\* the path arguments of the chdir calls that found an existing directory,
\* joined in the order of the calls, and by nothing else; so a chdir leaves
\* the cwd it found as a prefix of the cwd it leaves, and never a shorter one.
C20_CwdAppendOnly ==
    /\ \A s \in DOMAIN sess :
           sess[s].pc = "ready" =>
               /\ sess[s].cwd = sess[s].home \o sess[s].appended
               /\ IsPrefix(sess[s].home, sess[s].cwd)
    /\ (last.op = "chdir" =>
           /\ IsPrefix(last.pre, sess[last.s].cwd)
           /\ Len(sess[last.s].cwd) >= Len(last.pre)
           /\ sess[last.s].cwd \in { last.pre, last.pre \o last.arg })

\* Two chdir calls found a directory, the second of them into ".": cwd is
\* home with both arguments behind it, the "." kept as text.
C20_Witness ==
    /\ last.op = "chdir"
    /\ last.arg = Chars("/.")
    /\ last.pre = sess[last.s].home \o Chars("/a")
    /\ sess[last.s].appended = Chars("/a/.")
    /\ sess[last.s].cwd = sess[last.s].home \o Chars("/a/.")

=============================================================================
